---- MODULE Spec2Model ----
(***************************************************************************)
(* pyrsonalizer: the dependency-graph scheduler (graph_parser.py,          *)
(* execution_graph.py) and the action execution model (actions.py,         *)
(* utils.py), as a state machine.                                          *)
(*                                                                         *)
(* Specification Spec: one run of parse_execution_graph followed by        *)
(* ExecutionGraph.execute over every dependency configuration within the   *)
(* bounds.  Specification SpecSync: FileSync.execute, called directly with *)
(* an execution context and called from ExecutionGraph.execute, over every *)
(* state of the source and destination files within the bounds.            *)
(***************************************************************************)
EXTENDS Integers, Sequences, FiniteSets, TLC

\* ------------------------------------------------------------------ bounds
\* number of parsed actions; their keys are 1..NumActions
NumActions == 3
\* longest dependency_keys list of one action
MaxDeps == 2
\* modification times range over 0..MaxTime
MaxTime == 2
\* direct FileSync.execute calls made in one behaviour of SpecSync
MaxCalls == 2

Keys == 1..NumActions
\* the node of the synthetic root (NullAction with an unused uuid key)
Root == 0
\* a key that is the key of no parsed action
GhostKey == NumActions + 1
Nodes == Keys \cup {Root}
DepKeys == Keys \cup {GhostKey}
DepLists == UNION {[1..n -> DepKeys] : n \in 0..MaxDeps}

None == "None"

VARIABLES
  dependency_keys,   \* Action.dependency_keys of every parsed action
  klass,             \* the class of every parsed action
  dependencies,      \* Action.dependencies (resolved), per action
  children,          \* GraphNode._child_nodes, per node
  parents,           \* GraphNode._parent_nodes, per node
  visited,           \* GraphNode._visited: per node, the traversal keys marked
  uuid_count,        \* traversal keys handed out so far (uuid.uuid1())
  graph_returned,    \* parse_execution_graph returned an ExecutionGraph
  pc,                \* position of the run
  active_list,       \* get_topological_sort: active_list
  sorted_list,       \* get_topological_sort: sorted_list
  known_node_count,  \* get_topological_sort: known_node_count
  sort_key,          \* get_topological_sort: key
  execute_order,     \* ExecutionGraph.execute: list(reversed(topological_sort))
  exec_index,        \* ExecutionGraph.execute: position of the for loop
  exec_log,          \* every node.value.execute() call made, with its outcome
  error,             \* the exception that reached the caller, and what was logged
  sync,              \* the FileSync under test, its source and destination files
  exec_context,      \* ExecutionContext: attributes set on it
  sync_log,          \* direct FileSync.execute(exec_context) calls and their effects
  installation,      \* the Installation under test: its install_command
  install_log,       \* direct Installation.execute() calls: commands run, outcome
  location_log,      \* direct calls on the FileLocation of `sync` and their effects
  sort_results,      \* what every finished get_topological_sort call gave its caller
  parse_log          \* direct calls of parse_file_sync and _parse_objects: input, result

vars == <<dependency_keys, klass, dependencies, children, parents, visited,
          uuid_count, graph_returned, pc, active_list, sorted_list,
          known_node_count, sort_key, execute_order, exec_index, exec_log,
          error, sync, exec_context, sync_log, installation, install_log,
          location_log, sort_results, parse_log>>

graphVars == <<dependencies, children, parents, graph_returned>>
sortVars == <<visited, uuid_count, active_list, sorted_list, known_node_count, sort_key>>
execVars == <<execute_order, exec_index, exec_log>>
syncVars == <<sync, exec_context, sync_log>>
installVars == <<installation, install_log>>
locationVars == <<location_log>>
parseVars == <<parse_log>>

\* ------------------------------------------------------------ sequences
Last(s) == s[Len(s)]
Front(s) == SubSeq(s, 1, Len(s) - 1)
Reverse(s) == [i \in 1..Len(s) |-> s[Len(s) + 1 - i]]
Range(s) == {s[i] : i \in 1..Len(s)}
Count(x, s) == Cardinality({i \in 1..Len(s) : s[i] = x})
\* every ordering of a finite set: the iteration orders of a Python set
Orderings(S) == {s \in [1..Cardinality(S) -> S] : Range(s) = S}

\* ------------------------------------------------------ utils.log_and_raise
\* an argument of log_and_raise: a string, an exception class, an exception instance
Str(text) == [t |-> "str", v |-> text]
Class(name) == [t |-> "class", v |-> name]
Instance(name) == [t |-> "instance", v |-> name]

\* errors.py keys this model uses
GP_BAD_DEPENDENCY_REF == "gp_bad_dependency_ref"
EG_CIRCULAR_DEPENDENCY == "eg_circular_dependency"
EG_IMPOSSIBLE_STATE == "eg_impossible_state"

\* log_and_raise(logger_func, error_message, exception, error_key): the message
\* is prefixed with the key (str + ": " + str only), logged, and `exception` is
\* raised (a BaseException class or instance only).  Result: the exception that
\* leaves the call and the message that was logged before it.
log_and_raise(error_message, exception, error_key) ==
  IF error_key # None /\ error_message.t # "str"
    THEN [raised |-> "TypeError", logged |-> None]
    ELSE IF exception.t = "str"
      THEN [raised |-> "TypeError", logged |-> error_message.v]
      ELSE [raised |-> exception.v, logged |-> error_message.v]

\* what reached the caller: nothing yet
NoError == [raised |-> None, logged |-> None, where |-> None, names |-> 0]
Raised(r, where, names) ==
  [raised |-> r.raised, logged |-> r.logged, where |-> where,
   names |-> IF r.logged = None THEN 0 ELSE names]

\* ---------------------------------------------- graph_parser: graph building
\* object_mapping[key] succeeds for every key of the list
Resolves(keys) == \A i \in 1..Len(keys) : keys[i] \in Keys
\* the key the first failing object_mapping[key] lookup reports (KeyError.args[0])
FirstMissing(keys) ==
  keys[CHOOSE i \in 1..Len(keys) :
         /\ keys[i] \notin Keys
         /\ \A j \in 1..(i - 1) : keys[j] \in Keys]

\* a bug that drops unresolved keys instead of raising
build_dependency_graph_skipping(dk) ==
  [failed |-> FALSE,
   dependencies |-> [a \in Keys |-> SelectSeq(dk[a], LAMBDA k : k \in Keys)],
   missing |-> 0]

\* _build_dependency_graph(action_list, object_mapping): actions are handled in
\* list order; the keys of one action are all looked up before any dependency is
\* added; the first KeyError ends the loop.
build_dependency_graph(dk) ==
  LET bad == {a \in Keys : Len(dk[a]) > 0 /\ ~Resolves(dk[a])}
  IN IF bad = {}
       THEN [failed |-> FALSE, dependencies |-> dk, missing |-> 0]
       ELSE LET first == CHOOSE a \in bad : \A b \in bad : a <= b
            IN [failed |-> TRUE,
                dependencies |-> [a \in Keys |-> IF a < first THEN dk[a] ELSE <<>>],
                missing |-> FirstMissing(dk[first])]

\* the call made in the except KeyError branch of _build_dependency_graph
bad_dependency_ref_error ==
  log_and_raise(Class("KeyError"), Str("Dependency key does not refer to an object that exists."),
                GP_BAD_DEPENDENCY_REF)

\* a bug that adds an edge once however often the dependency is listed
build_nodes_once(deps) ==
  [a \in Keys |->
     SelectSeq([i \in 1..Len(deps[a]) |->
                  IF \E j \in 1..(i - 1) : deps[a][j] = deps[a][i] THEN Root
                  ELSE deps[a][i]],
               LAMBDA k : k # Root)]

\* _build_nodes: node.add_child(dep_node) for every dependency, in order
build_nodes(deps) == [a \in Keys |-> deps[a]]

\* _build_root: the actions that are the value of some Dependency
\* (the set the code calls non_dependency_actions)
depended_upon(deps) == UNION {Range(deps[a]) : a \in Keys}
top_nodes(deps) == Keys \ depended_upon(deps)

\* GraphNode.add_child / add_parent_node: the parents list of node c once
\* _build_nodes (actions in list order) and _build_root have run
RECURSIVE parents_up_to(_, _, _)
parents_up_to(c, ch, n) ==
  IF n = 0 THEN <<>>
  ELSE parents_up_to(c, ch, n - 1) \o [i \in 1..Count(c, ch[n]) |-> n]

parents_of(c, ch, root_children) ==
  IF c = Root THEN <<>>
  ELSE parents_up_to(c, ch, NumActions)
         \o [i \in 1..Count(c, root_children) |-> Root]

\* ------------------------------------------- execution_graph: ordering
\* a bug that also takes the mark of the identifier drawn just before (the one
\* of _get_num_nodes) for a mark of this traversal
was_visited_or_counted(marks, key) == key \in marks \/ (key - 1) \in marks

\* a bug that keeps one visited flag per node, whatever the key
was_visited_under_any_key(marks, key) == marks # {}

\* GraphNode.was_visited(key) for a node whose marks are `marks`
was_visited(marks, key) == key \in marks

\* _get_num_nodes: the loop over search_list, popping from the end; `vis` are
\* the marks of the nodes, `key` is the key of this traversal
RECURSIVE num_nodes_loop(_, _, _, _, _)
num_nodes_loop(ch, search_list, vis, key, node_count) ==
  IF search_list = <<>> THEN [node_count |-> node_count, visited |-> vis]
  ELSE LET node == Last(search_list)
           rest == Front(search_list)
       IN IF was_visited(vis[node], key)
            THEN num_nodes_loop(ch, rest, vis, key, node_count)
            ELSE num_nodes_loop(ch, rest \o ch[node],
                                [vis EXCEPT ![node] = @ \cup {key}], key, node_count + 1)

get_num_nodes(ch, vis, key) == num_nodes_loop(ch, <<Root>>, vis, key, 0)

\* a bug that visits the children of a node whatever their other parents
all_parents_visited_unchecked(child, par, vis, key) == child = child

\* the test of the inner loop of get_topological_sort: the child is appended to
\* active_list unless some parent was not visited with this key
all_parents_visited(child, par, vis, key) ==
  \A i \in 1..Len(par[child]) : was_visited(vis[par[child][i]], key)

\* more iterations than the while loop of get_topological_sort makes on any
\* graph of NumActions actions with at most MaxDeps dependency keys each
SortBound == NumActions * (MaxDeps ^ NumActions) + 1

\* the comparison of len(sorted_list) with known_node_count after the loop
sort_verdict(sorted_len, known) ==
  IF sorted_len < known THEN "circular"
  ELSE IF sorted_len > known THEN "impossible"
  ELSE "ok"

circular_dependency_error ==
  log_and_raise(Class("CircularDependencyException"),
                Str("Found circular dependency in dependency graph."),
                EG_CIRCULAR_DEPENDENCY)

impossible_state_error ==
  log_and_raise(Class("ImpossibleStateException"),
                Str("Hit an impossible state, you've found a bug!"),
                EG_IMPOSSIBLE_STATE)

\* ------------------------------------------------- actions: execute
\* the classes of the parsed actions: the two action classes of actions.py and
\* any other subclass of the abstract Action
Klasses == {"FileSync", "Installation", "CustomAction"}

klass_of(node, kl) == IF node = Root THEN "NullAction" ELSE kl[node]

\* the names errors.py defines that actions.py reads
ErrorsNames == {"AC_BAD_GITHUB_URL", "AC_BAD_FINAL_FILE_PATH", "AC_FAILED_TO_CLONE",
                "AC_USER_STOPPED_EXECUTION"}

\* log_and_raise called with errors.<name> as its error key: the attribute is
\* read before the call is made
log_and_raise_keyed(error_message, exception, name) ==
  IF name \in ErrorsNames
    THEN log_and_raise(error_message, exception, name)
    ELSE [raised |-> "AttributeError", logged |-> None]

\* one subprocess.run: the command run and whether its returncode was 0
Ran(command, zero) == [command |-> command, zero |-> zero]

\* Installation._install: the commands run, and the result
install(install_command, install_ok) ==
  IF install_command # None
    THEN [runs |-> <<Ran("install", install_ok)>>, result |-> install_ok]
    ELSE [runs |-> <<>>, result |-> TRUE]

\* a bug that runs the install command a second time when it fails
installation_execute_retrying(install_command, check1, install_ok, check2) ==
  LET first == <<Ran("check", check1)>>
      inst == install(install_command, install_ok)
      second == <<Ran("check", check2)>>
  IN IF check1 THEN [outcome |-> "ok", runs |-> first]
     ELSE IF ~inst.result
       THEN [outcome |-> "ActionFailureException", runs |-> first \o inst.runs \o inst.runs]
     ELSE IF ~check2 /\ install_command = None
       THEN [outcome |-> "ActionFailureException", runs |-> first \o inst.runs \o second]
     ELSE [outcome |-> "ok", runs |-> first \o inst.runs \o second]

\* a bug that leaves out the first check: the install command always runs
installation_execute_always_installs(install_command, check1, install_ok, check2) ==
  LET inst == install(install_command, install_ok)
      second == <<Ran("check", check2)>>
  IN IF ~inst.result
       THEN [outcome |-> "ActionFailureException", runs |-> inst.runs]
     ELSE IF ~check2 /\ install_command = None
       THEN [outcome |-> "ActionFailureException", runs |-> inst.runs \o second]
     ELSE [outcome |-> "ok", runs |-> inst.runs \o second]

\* a bug that fails whenever the second check fails, install command or not
installation_execute_strict(install_command, check1, install_ok, check2) ==
  LET first == <<Ran("check", check1)>>
      inst == install(install_command, install_ok)
      second == <<Ran("check", check2)>>
  IN IF check1 THEN [outcome |-> "ok", runs |-> first]
     ELSE IF ~inst.result
       THEN [outcome |-> "ActionFailureException", runs |-> first \o inst.runs]
     ELSE IF ~check2
       THEN [outcome |-> "ActionFailureException",
             runs |-> first \o inst.runs \o second]
     ELSE [outcome |-> "ok", runs |-> first \o inst.runs \o second]

\* Installation.execute: check1, install_ok, check2 are the exit statuses (zero
\* or not) the first check, the install command and the second check would
\* have; the result is the outcome of the call and the commands it ran
installation_execute(install_command, check1, install_ok, check2) ==
  LET first == <<Ran("check", check1)>>
      inst == install(install_command, install_ok)
      second == <<Ran("check", check2)>>
  IN IF check1 THEN [outcome |-> "ok", runs |-> first]
     ELSE IF ~inst.result
       THEN [outcome |-> log_and_raise_keyed(Str("Failed to install Installation"),
                                             Class("ActionFailureException"),
                                             "AC_FAILED_TO_INSTALL").raised,
             runs |-> first \o inst.runs]
     ELSE IF ~check2
       THEN IF install_command # None
              THEN [outcome |-> "ok", runs |-> first \o inst.runs \o second]
              ELSE [outcome |-> log_and_raise_keyed(
                                  Str("'Check-only' installation is not installed."),
                                  Class("ActionFailureException"),
                                  "AC_CHECK_ONLY_INSTALLATION_NOT_INSTALLED").raised,
                    runs |-> first \o inst.runs \o second]
     ELSE [outcome |-> "ok", runs |-> first \o inst.runs \o second]

InstallCommands == {None, "install"}

\* every way an Installation.execute call can go
InstallationOutcomes ==
  {installation_execute(ic, c1, io, c2) :
     ic \in InstallCommands, c1 \in BOOLEAN, io \in BOOLEAN, c2 \in BOOLEAN}

\* what an execute of a subclass of Action outside actions.py may do
CustomOutcomes == {"ok", "ActionFailureException", "UserStoppedExecutionException"}

\* the classes whose execute has exec_context as a required parameter
RequiresContext == {"NullAction", "FileSync"}

\* node.value.execute() as ExecutionGraph.execute calls it, with no argument:
\* the outcomes of the call ("ok": it returned) and the commands it ran
execute_without_context(k) ==
  IF k \in RequiresContext THEN {[outcome |-> "TypeError", runs |-> <<>>]}
  ELSE IF k = "Installation" THEN InstallationOutcomes
  ELSE {[outcome |-> o, runs |-> <<>>] : o \in CustomOutcomes}

\* a bug that swallows an ActionFailureException instead of re-raising it
propagates_swallowing(outcome) == outcome \notin {"ok", "ActionFailureException"}
\* a bug that logs every failure of an action and goes on with the next one
propagates_nothing(outcome) == outcome # outcome

\* a bug that allows partial executions: only a user's stop ends the loop
propagates_only_user_stop(outcome) == outcome = "UserStoppedExecutionException"

\* the try/except of the loop of ExecutionGraph.execute: every exception leaves
\* the loop (ActionFailureException is re-raised, nothing else is caught)
propagates(outcome) == outcome # "ok"

\* ------------------------------------------------- actions: FileSync
\* ModifiedDateDecisionEnum
stop_execution == 1
skip_this_action == 2
proceed_once == 3
ignore_in_future == 4
ModifiedDateDecisions == {stop_execution, skip_this_action, proceed_once, ignore_in_future}

Contents == {"A", "B"}
Times == 0..MaxTime

\* LocalFileLocation.get_file_path
local_get_file_path(s) ==
  IF s.source_exists
    THEN [raised |-> None, path_cached |-> s.path_cached, clone_attempted |-> FALSE]
    ELSE [raised |-> "EnvironmentError", path_cached |-> s.path_cached,
          clone_attempted |-> FALSE]

\* a bug that assigns _path before clone_from is called
clone_path_first(s, clone_ok) ==
  IF ~clone_ok
    THEN [raised |-> "GitCommandError", path_cached |-> TRUE, clone_attempted |-> TRUE]
  ELSE IF ~s.source_exists
    THEN [raised |-> "ValueError", path_cached |-> TRUE, clone_attempted |-> TRUE]
  ELSE [raised |-> None, path_cached |-> TRUE, clone_attempted |-> TRUE]

\* GithubFileLocation._clone: _repo and _path are assigned once clone_from has
\* returned, before the is_file test
clone(s, clone_ok) ==
  IF ~clone_ok
    THEN [raised |-> log_and_raise_keyed(Str("There was a problem downloading from the git repo"),
                                         Instance("GitCommandError"),
                                         "AC_FAILED_TO_CLONE").raised,
          path_cached |-> FALSE, clone_attempted |-> TRUE]
  ELSE IF ~s.source_exists
    THEN [raised |-> log_and_raise_keyed(Str("Github file to sync does not exist."),
                                         Class("ValueError"),
                                         "AC_BAD_FINAL_FILE_PATH").raised,
          path_cached |-> TRUE, clone_attempted |-> TRUE]
  ELSE [raised |-> None, path_cached |-> TRUE, clone_attempted |-> TRUE]

\* a bug that clones on every call
needs_clone_always(s) == s = s

\* the test `self._path is None` of get_file_path and get_modified_date
needs_clone(s) == ~s.path_cached

\* GithubFileLocation.get_file_path: the clone happens while _path is None
github_get_file_path(s, clone_ok) ==
  IF needs_clone(s) THEN clone(s, clone_ok)
  ELSE [raised |-> None, path_cached |-> TRUE, clone_attempted |-> FALSE]

\* GithubFileLocation.get_modified_date: the clone happens while _path is None;
\* the date is the date of the head commit of the cloned repository
github_get_modified_date(s, clone_ok) ==
  LET c == IF needs_clone(s) THEN clone(s, clone_ok)
           ELSE [raised |-> None, path_cached |-> TRUE, clone_attempted |-> FALSE]
  IN [raised |-> c.raised, path_cached |-> c.path_cached,
      clone_attempted |-> c.clone_attempted,
      date |-> IF c.raised = None THEN s.source_mtime ELSE 0]

\* LocalFileLocation.get_modified_date: utils.get_file_modified_date(self.path)
local_get_modified_date(s) ==
  IF s.source_exists
    THEN [raised |-> None, path_cached |-> s.path_cached, clone_attempted |-> FALSE,
          date |-> s.source_mtime]
    ELSE [raised |-> log_and_raise(Str("Path does not exist."), Class("ValueError"),
                                   "UT_GET_MODIFIED_DATE_PATH_DOES_NOT_EXIST").raised,
          path_cached |-> s.path_cached, clone_attempted |-> FALSE, date |-> 0]

get_modified_date(s, clone_ok) ==
  IF s.backend = "local" THEN local_get_modified_date(s)
  ELSE github_get_modified_date(s, clone_ok)

get_file_path(s, clone_ok) ==
  IF s.backend = "local" THEN local_get_file_path(s) ELSE github_get_file_path(s, clone_ok)

\* a bug that also asks when the two dates are equal
asks_user_when_not_newer(source_mtime, dest_mtime) == source_mtime <= dest_mtime

\* FileLocation.compare_modified_date: the test that decides whether the user is
\* asked (get_modified_date() < utils.get_file_modified_date(file_path))
asks_user(source_mtime, dest_mtime) == source_mtime < dest_mtime

\* FileLocation.compare_modified_date: the decision, or None
compare_modified_date(s, answer) ==
  IF asks_user(s.source_mtime, s.dest_mtime) THEN answer ELSE 0

\* a bug that treats stop_execution like proceed_once
handle_modified_date_stop_proceeds(s, ctx, answer) ==
  LET choice == compare_modified_date(s, answer)
      asked == choice # 0
  IN IF choice = skip_this_action
       THEN [raised |-> None, finish |-> FALSE, ctx |-> ctx, asked |-> asked]
     ELSE IF choice = ignore_in_future
       THEN [raised |-> None, finish |-> TRUE,
             ctx |-> [ctx EXCEPT !.skip_modified_date_warning = TRUE], asked |-> asked]
     ELSE [raised |-> None, finish |-> TRUE, ctx |-> ctx, asked |-> asked]

\* a bug that sets the attribute for proceed_once as well
handle_modified_date_proceed_sets_flag(s, ctx, answer) ==
  LET choice == compare_modified_date(s, answer)
      asked == choice # 0
  IN IF choice = stop_execution
       THEN [raised |-> "UserStoppedExecutionException",
             finish |-> FALSE, ctx |-> ctx, asked |-> asked]
     ELSE IF choice = skip_this_action
       THEN [raised |-> None, finish |-> FALSE, ctx |-> ctx, asked |-> asked]
     ELSE IF choice \in {proceed_once, ignore_in_future}
       THEN [raised |-> None, finish |-> TRUE,
             ctx |-> [ctx EXCEPT !.skip_modified_date_warning = TRUE], asked |-> asked]
     ELSE [raised |-> None, finish |-> TRUE, ctx |-> ctx, asked |-> asked]

\* FileSync._handle_modified_date: raises, or tells execute whether to go on;
\* ignore_in_future sets the attribute on the execution context
handle_modified_date(s, ctx, answer) ==
  LET choice == compare_modified_date(s, answer)
      asked == choice # 0
  IN IF choice = stop_execution
       THEN [raised |-> log_and_raise_keyed(Str("User stopped execution"),
                                            Class("UserStoppedExecutionException"),
                                            "AC_USER_STOPPED_EXECUTION").raised,
             finish |-> FALSE, ctx |-> ctx, asked |-> asked]
     ELSE IF choice = skip_this_action
       THEN [raised |-> None, finish |-> FALSE, ctx |-> ctx, asked |-> asked]
     ELSE IF choice = ignore_in_future
       THEN [raised |-> None, finish |-> TRUE,
             ctx |-> [ctx EXCEPT !.skip_modified_date_warning = TRUE], asked |-> asked]
     ELSE [raised |-> None, finish |-> TRUE, ctx |-> ctx, asked |-> asked]

\* a bug that goes on to the modified-date check whatever overwrite is
refuses_overwrite_never(overwrite) == overwrite # overwrite

\* FileSync.execute: the branch taken when the destination is a file
refuses_overwrite(overwrite) == ~overwrite

\* shutil.copy(source_path, self.dest_path): the destination becomes a file with
\* the content of the source, written now; when the destination is a directory,
\* the file written is the entry of the directory with the source's filename
copy(s) ==
  IF s.source_exists
    THEN [raised |-> None,
          sync |-> [s EXCEPT !.dest_kind = IF @ = "dir" THEN "dir" ELSE "file",
                             !.dest_content = s.source_content,
                             !.dest_mtime = MaxTime]]
    ELSE [raised |-> "FileNotFoundError", sync |-> s]

\* FileSync.execute(exec_context)
file_sync_execute(s, ctx, answer, clone_ok) ==
  LET p == get_file_path(s, clone_ok)
      s1 == [s EXCEPT !.path_cached = p.path_cached]
      quiet == [outcome |-> "ok", sync |-> s1, ctx |-> ctx, asked |-> FALSE,
                copied |-> FALSE, resolved |-> p.raised = None]
  IN IF p.raised # None THEN [quiet EXCEPT !.outcome = p.raised]
     ELSE IF s1.dest_kind = "file" /\ refuses_overwrite(s1.overwrite)
       THEN [quiet EXCEPT !.outcome =
               log_and_raise(Str("File exists and overwrite is not set to true."),
                             Class("ActionFailureException"), None).raised]
     ELSE LET h == IF s1.dest_kind = "file"
                     THEN handle_modified_date(s1, ctx, answer)
                     ELSE [raised |-> None, finish |-> TRUE, ctx |-> ctx, asked |-> FALSE]
          IN IF h.raised # None
               THEN [quiet EXCEPT !.outcome = h.raised, !.asked = h.asked]
             ELSE IF ~h.finish
               THEN [quiet EXCEPT !.asked = h.asked]
             ELSE LET c == copy(s1)
                  IN [outcome |-> IF c.raised = None THEN "ok" ELSE c.raised,
                      sync |-> c.sync, ctx |-> h.ctx, asked |-> h.asked,
                      copied |-> c.raised = None, resolved |-> TRUE]

\* the states of one FileSync, its source and its destination. dest_kind is
\* what dest_path is: nothing, a file, or a directory; for a directory,
\* dest_content and dest_mtime are those of its entry with the source's filename
\* (None when it has no such entry), the file shutil.copy writes
SyncStates ==
  {s \in [overwrite : BOOLEAN, backend : {"local", "github"}, path_cached : {FALSE},
          source_exists : BOOLEAN, source_content : Contents, source_mtime : Times,
          dest_kind : {"absent", "file", "dir"}, dest_content : Contents \cup {None},
          dest_mtime : Times, answer : ModifiedDateDecisions] :
     /\ s.dest_kind = "absent" => (s.dest_content = None /\ s.dest_mtime = 0)
     /\ s.dest_kind = "file" => s.dest_content \in Contents
     /\ s.dest_kind = "dir" => s.dest_mtime = 0}

\* the FileSync of Spec, where no execute of a FileSync gets its context
SyncIdle ==
  [overwrite |-> FALSE, backend |-> "local", path_cached |-> FALSE,
   source_exists |-> TRUE, source_content |-> "A", source_mtime |-> 0,
   dest_kind |-> "absent", dest_content |-> None, dest_mtime |-> 0,
   answer |-> stop_execution]

NewContext == [skip_modified_date_warning |-> FALSE]

\* the Installation of the specifications that make no direct call on one
InstallationIdle == [install_command |-> None]

\* ------------------------------------------------------------ the run
InitRun ==
  /\ dependencies = [a \in Keys |-> <<>>]
  /\ children = [n \in Nodes |-> <<>>]
  /\ parents = [n \in Nodes |-> <<>>]
  /\ visited = [n \in Nodes |-> {}]
  /\ uuid_count = 0
  /\ graph_returned = FALSE
  /\ pc = "start"
  /\ active_list = <<>>
  /\ sorted_list = <<>>
  /\ known_node_count = 0
  /\ sort_key = 0
  /\ execute_order = <<>>
  /\ exec_index = 0
  /\ exec_log = <<>>
  /\ error = NoError
  /\ exec_context = NewContext
  /\ sync_log = <<>>
  /\ install_log = <<>>
  /\ location_log = <<>>
  /\ sort_results = <<>>
  /\ parse_log = <<>>

Init ==
  /\ dependency_keys \in [Keys -> DepLists]
  /\ klass \in [Keys -> Klasses]
  /\ sync = SyncIdle
  /\ installation = InstallationIdle
  /\ InitRun

\* parse_execution_graph, a key does not resolve: _build_dependency_graph raises
ParseFails ==
  /\ pc = "start"
  /\ sync_log = <<>>
  /\ install_log = <<>>
  /\ location_log = <<>>
  /\ parse_log = <<>>
  /\ LET r == build_dependency_graph(dependency_keys)
     IN /\ r.failed
        /\ dependencies' = r.dependencies
        /\ error' = Raised(bad_dependency_ref_error, "build", r.missing)
  /\ pc' = "raised"
  /\ UNCHANGED <<dependency_keys, klass, children, parents, graph_returned>>
  /\ UNCHANGED <<sortVars, execVars, syncVars, installVars, locationVars, sort_results, parseVars>>

\* parse_execution_graph: _build_dependency_graph, _build_nodes, _build_root;
\* the children of the root are added in the iteration order of a set
ParseExecutionGraph ==
  /\ pc = "start"
  /\ sync_log = <<>>
  /\ install_log = <<>>
  /\ location_log = <<>>
  /\ parse_log = <<>>
  /\ LET r == build_dependency_graph(dependency_keys)
     IN /\ ~r.failed
        /\ dependencies' = r.dependencies
        /\ \E root_children \in Orderings(top_nodes(r.dependencies)) :
             LET ch == [n \in Nodes |-> IF n = Root THEN root_children
                                        ELSE build_nodes(r.dependencies)[n]]
             IN /\ children' = ch
                /\ parents' = [n \in Nodes |-> parents_of(n, ch, root_children)]
  /\ graph_returned' = TRUE
  /\ pc' = "built"
  /\ UNCHANGED <<dependency_keys, klass, error>>
  /\ UNCHANGED <<sortVars, execVars, syncVars, installVars, locationVars, sort_results, parseVars>>

\* ExecutionGraph.execute enters get_topological_sort: the lists are set up,
\* one iteration of the while loop of get_topological_sort: pop, set_visited,
\* append, and the children whose parents were all visited are appended to the
\* active list
sort_step(active, sorted, vis, key, ch, par) ==
  LET node == Last(active)
      marked == [vis EXCEPT ![node] = @ \cup {key}]
  IN [active_list |-> Front(active)
                        \o SelectSeq(ch[node],
                                     LAMBDA c : all_parents_visited(c, par, marked, key)),
      sorted_list |-> Append(sorted, node),
      visited |-> marked]

\* the while loop of get_topological_sort
RECURSIVE sort_loop(_, _, _, _, _, _)
sort_loop(active, sorted, vis, key, ch, par) ==
  IF active = <<>> \/ Len(sorted) >= SortBound THEN sorted
  ELSE LET s == sort_step(active, sorted, vis, key, ch, par)
       IN sort_loop(s.active_list, s.sorted_list, s.visited, key, ch, par)

\* get_topological_sort as a function of the graph, of the marks the nodes
\* carry and of the two identifiers drawn (by _get_num_nodes and by the sort):
\* what the caller gets
get_topological_sort(ch, par, vis, count_key, key) ==
  LET counted == get_num_nodes(ch, vis, count_key)
      sorted == sort_loop(<<Root>>, <<>>, counted.visited, key, ch, par)
      v == sort_verdict(Len(sorted), counted.node_count)
  IN IF v = "ok" THEN [raised |-> None, returned |-> sorted]
     ELSE IF v = "circular"
       THEN [raised |-> circular_dependency_error.raised, returned |-> <<>>]
     ELSE [raised |-> impossible_state_error.raised, returned |-> <<>>]

\* _get_num_nodes walks the graph under its own key, the sort draws its key
SortStart ==
  /\ pc = "built"
  /\ LET count_key == uuid_count + 1
         r == get_num_nodes(children, visited, count_key)
     IN /\ known_node_count' = r.node_count
        /\ visited' = r.visited
        /\ sort_key' = count_key + 1
        /\ uuid_count' = count_key + 1
  /\ active_list' = <<Root>>
  /\ sorted_list' = <<>>
  /\ pc' = "sorting"
  /\ UNCHANGED <<dependency_keys, klass, error, graphVars, execVars, syncVars, installVars, locationVars, sort_results, parseVars>>

\* one iteration of the while loop of get_topological_sort
SortStep ==
  /\ pc = "sorting"
  /\ active_list # <<>>
  /\ Len(sorted_list) < SortBound
  /\ LET s == sort_step(active_list, sorted_list, visited, sort_key, children, parents)
     IN /\ visited' = s.visited
        /\ sorted_list' = s.sorted_list
        /\ active_list' = s.active_list
  /\ UNCHANGED <<dependency_keys, klass, error, pc, graphVars, execVars, syncVars, installVars, locationVars, sort_results, parseVars>>
  /\ UNCHANGED <<uuid_count, known_node_count, sort_key>>

\* the loop ended and the length check fails: log_and_raise
SortRaises ==
  /\ pc = "sorting"
  /\ active_list = <<>>
  /\ LET v == sort_verdict(Len(sorted_list), known_node_count)
         r == IF v = "circular" THEN circular_dependency_error
              ELSE impossible_state_error
     IN /\ v # "ok"
        /\ error' = Raised(r, "sort", 0)
        /\ sort_results' = Append(sort_results,
                                  [raised |-> r.raised, returned |-> <<>>])
  /\ pc' = "raised"
  /\ UNCHANGED <<dependency_keys, klass, graphVars, sortVars, execVars>>
  /\ UNCHANGED <<syncVars, installVars, locationVars, parseVars>>

\* a bug that iterates over the list as get_topological_sort returned it
not_reversed(topological_sort) == topological_sort

\* execute_order = reversed(topological_sort) of ExecutionGraph.execute
reversed(topological_sort) == Reverse(topological_sort)

\* the loop ended and the list is returned: execute reverses it
SortReturns ==
  /\ pc = "sorting"
  /\ active_list = <<>>
  /\ sort_verdict(Len(sorted_list), known_node_count) = "ok"
  /\ sort_results' = Append(sort_results, [raised |-> None, returned |-> sorted_list])
  /\ execute_order' = reversed(sorted_list)
  /\ exec_index' = 1
  /\ pc' = "executing"
  /\ UNCHANGED <<dependency_keys, klass, error, graphVars, sortVars, exec_log>>
  /\ UNCHANGED <<syncVars, installVars, locationVars, parseVars>>

\* one iteration of the for loop of ExecutionGraph.execute
ExecuteNode ==
  /\ pc = "executing"
  /\ exec_index <= Len(execute_order)
  /\ LET node == execute_order[exec_index]
     IN \E r \in execute_without_context(klass_of(node, klass)) :
          /\ exec_log' = Append(exec_log,
               [node |-> node, outcome |-> r.outcome, runs |-> r.runs])
          /\ IF propagates(r.outcome)
               THEN /\ pc' = "raised"
                    /\ error' = [raised |-> r.outcome, logged |-> None,
                                 where |-> "execute", names |-> 0]
                    /\ UNCHANGED exec_index
               ELSE /\ pc' = IF exec_index = Len(execute_order) THEN "done" ELSE "executing"
                    /\ exec_index' = exec_index + 1
                    /\ UNCHANGED error
  /\ UNCHANGED <<dependency_keys, klass, execute_order, graphVars, sortVars, syncVars, installVars, locationVars, sort_results, parseVars>>

Next ==
  \/ ParseFails
  \/ ParseExecutionGraph
  \/ SortStart
  \/ SortStep
  \/ SortRaises
  \/ SortReturns
  \/ ExecuteNode

Spec == Init /\ [][Next]_vars

\* ------------------------------------------- FileSync.execute, both ways
\* the FileSync whose files `sync` describes: the first action of action_list
SyncKey == CHOOSE k \in Keys : \A j \in Keys : k <= j

\* a chain, a chain that ends in an unresolved key, and a cycle below action 1
SyncConfigs ==
  { [a \in Keys |-> IF a = 1 THEN <<>> ELSE <<a - 1>>],
    [a \in Keys |-> IF a = NumActions THEN <<GhostKey>> ELSE <<a + 1>>],
    [a \in Keys |-> IF a = NumActions THEN <<2>> ELSE <<a + 1>>] }

InitSync ==
  /\ dependency_keys \in SyncConfigs
  /\ klass = [a \in Keys |-> "FileSync"]
  /\ sync \in SyncStates
  /\ installation = InstallationIdle
  /\ InitRun

\* FileSync.execute(exec_context) called on the FileSync itself, as the unit
\* tests of the actions call execute; the user's answer to the next question and
\* the outcome of a clone are inputs of the call
FileSyncExecute ==
  /\ pc = "start"
  /\ Len(sync_log) < MaxCalls
  /\ \E clone_ok \in BOOLEAN, next_answer \in ModifiedDateDecisions :
       LET r == file_sync_execute(sync, exec_context, sync.answer, clone_ok)
       IN /\ sync' = [r.sync EXCEPT !.answer = next_answer]
          /\ exec_context' = r.ctx
          /\ sync_log' = Append(sync_log,
               [before |-> sync, after |-> r.sync, outcome |-> r.outcome,
                asked |-> r.asked, copied |-> r.copied, resolved |-> r.resolved,
                clone_ok |-> clone_ok, ctx_before |-> exec_context])
  /\ UNCHANGED <<dependency_keys, klass, pc, error, graphVars, sortVars, execVars>>
  /\ UNCHANGED <<installVars, locationVars, sort_results, parseVars>>

NextSync == Next \/ FileSyncExecute

SpecSync == InitSync /\ [][NextSync]_vars

\* ------------------------------------------ Installation.execute, both ways
InitInstall ==
  /\ dependency_keys \in SyncConfigs
  /\ klass = [a \in Keys |-> "Installation"]
  /\ sync = SyncIdle
  /\ installation \in [install_command : InstallCommands]
  /\ InitRun

\* Installation.execute() called on the Installation itself, as the unit tests
\* call it; the exit statuses of the commands are inputs of the call
InstallationExecute ==
  /\ pc = "start"
  /\ Len(install_log) < MaxCalls
  /\ \E check1 \in BOOLEAN, install_ok \in BOOLEAN, check2 \in BOOLEAN :
       LET r == installation_execute(installation.install_command,
                                     check1, install_ok, check2)
       IN install_log' = Append(install_log, r)
  /\ UNCHANGED <<dependency_keys, klass, pc, error, graphVars, sortVars, execVars>>
  /\ UNCHANGED <<syncVars, installation, locationVars, sort_results, parseVars>>

NextInstall == Next \/ InstallationExecute

SpecInstall == InitInstall /\ [][NextInstall]_vars

\* --------------------------------- get_topological_sort, called repeatedly
InitSort ==
  /\ dependency_keys \in [Keys -> DepLists]
  /\ klass = [a \in Keys |-> "Installation"]
  /\ sync = SyncIdle
  /\ installation = InstallationIdle
  /\ InitRun

\* the caller of get_topological_sort has its result and calls it again on the
\* same graph (the unit tests call get_topological_sort, ExecutionGraph.execute
\* calls it once more): the nodes keep the marks of the earlier traversals
SortAgain ==
  /\ pc \in {"executing", "raised"}
  /\ pc = "raised" => error.where = "sort"
  /\ exec_log = <<>>
  /\ Len(sort_results) < MaxCalls
  /\ pc' = "built"
  /\ error' = NoError
  /\ execute_order' = <<>>
  /\ exec_index' = 0
  /\ UNCHANGED <<dependency_keys, klass, graphVars, sortVars, exec_log>>
  /\ UNCHANGED <<syncVars, installVars, locationVars, sort_results, parseVars>>

NextSort == Next \/ SortAgain

\* the loops of get_topological_sort and of execute are not interrupted
SpecSort == InitSort /\ [][NextSort]_vars /\ WF_vars(Next)

\* ------------------------------------------ FileLocation, called directly
\* the locations: local and GitHub, the file there or not, nothing fetched yet
LocationStates ==
  {s \in SyncStates : s.dest_kind = "absent" /\ ~s.overwrite
                        /\ s.answer = stop_execution /\ s.source_content = "A"}

InitLocation ==
  /\ dependency_keys \in SyncConfigs
  /\ klass = [a \in Keys |-> "FileSync"]
  /\ sync \in LocationStates
  /\ installation = InstallationIdle
  /\ InitRun

\* one call on the location: the entry of location_log it leaves
Called(op, r, clone_ok) ==
  [op |-> op, before |-> sync, raised |-> r.raised, path_cached |-> r.path_cached,
   clone_attempted |-> r.clone_attempted, clone_ok |-> clone_ok]

\* file_source.get_file_path(), as the unit tests of the locations call it; the
\* outcome of a clone is an input of the call; a failed call, a retry and one
\* more call fit into MaxCalls + 1 calls
GetFilePath ==
  /\ pc = "start"
  /\ Len(location_log) <= MaxCalls
  /\ \E clone_ok \in BOOLEAN :
       LET r == get_file_path(sync, clone_ok)
       IN /\ sync' = [sync EXCEPT !.path_cached = r.path_cached]
          /\ location_log' = Append(location_log, Called("get_file_path", r, clone_ok))
  /\ UNCHANGED <<dependency_keys, klass, pc, error, graphVars, sortVars, execVars>>
  /\ UNCHANGED <<exec_context, sync_log, installVars, sort_results, parseVars>>

\* file_source.get_modified_date()
GetModifiedDate ==
  /\ pc = "start"
  /\ Len(location_log) <= MaxCalls
  /\ \E clone_ok \in BOOLEAN :
       LET r == get_modified_date(sync, clone_ok)
       IN /\ sync' = [sync EXCEPT !.path_cached = r.path_cached]
          /\ location_log' = Append(location_log, Called("get_modified_date", r, clone_ok))
  /\ UNCHANGED <<dependency_keys, klass, pc, error, graphVars, sortVars, execVars>>
  /\ UNCHANGED <<exec_context, sync_log, installVars, sort_results, parseVars>>

NextLocation == Next \/ GetFilePath \/ GetModifiedDate

SpecLocation == InitLocation /\ [][NextLocation]_vars

\* ------------------------------------------------- the configuration
\* -------------------------------------------- node_parsers, graph_parser
\* const.py: the two location types a configuration can name
LOCATION_TYPE_LOCAL == "local"
LOCATION_TYPE_GITHUB == "github"

\* node_parsers.LOCATION_TYPES
LOCATION_TYPES == {LOCATION_TYPE_LOCAL, LOCATION_TYPE_GITHUB}

\* errors.py keys of node_parsers and of _parse_objects
NP_MISSING_LOCATION_TYPE == "missing_location_type"
NP_MISSING_FILE_SYNC_CONFIG == "missing_file_sync_config"
NP_INVALID_LOCATION_TYPE == "np_invalid_location_type"
NP_MISSING_EXEC_CONTEXT == "np_missing_exec_context"
GP_NO_CLASS_MAP == "gp_no_class_map"
GP_NO_PARSER_FUNC_MAP == "gp_no_parser_func_map"
AC_BAD_GITHUB_URL == "ac_bad_github_url"

\* a call that ended in log_and_raise: the exception, and the error key when
\* the message was logged under it
Failed(r, error_key) ==
  [raised |-> r.raised,
   error_key |-> IF r.logged # None THEN error_key ELSE None,
   file_sync |-> None]

\* node_parsers.REQUIRED_FS_NODES: the fields a backend requires
REQUIRED_FS_NODES(backend) ==
  IF backend = "local" THEN {"source_file_path", "dest_file_path", "key"}
  ELSE {"repository", "source_file_path", "dest_file_path", "key"}

\* `node in file_sync_config`: `given` is the set of the keys of the dict
Has(file_sync_config, node) == node \in file_sync_config.given

\* validators.url(repo_url) of GithubFileLocation._set_repo_name
GoodUrl == "https://github.com/user/repo"
BadUrl == "www.github.com/user/repo"
validators_url(repo_url) == repo_url = GoodUrl

\* GithubFileLocation.__init__: _set_repo_name raises on a value that is no URL
github_file_location(repo_url, relative_path) ==
  IF ~validators_url(repo_url)
    THEN Failed(log_and_raise_keyed(Str("Invalid URL."), Class("ValueError"),
                                    "AC_BAD_GITHUB_URL"), AC_BAD_GITHUB_URL)
    ELSE [raised |-> None, error_key |-> None,
          file_sync |-> [type |-> "github", repo_url |-> repo_url, path |-> relative_path]]

\* the end of parse_file_sync: the file source and the FileSync are created;
\* overwrite and the dependency keys have defaults
new_file_sync(file_sync_config) ==
  LET backend == file_sync_config.location_type
      file_source ==
        IF backend = "local"
          THEN [raised |-> None, error_key |-> None,
                file_sync |-> [type |-> "local",
                               path |-> file_sync_config.source_file_path]]
          ELSE github_file_location(file_sync_config.repository,
                                    file_sync_config.source_file_path)
  IN IF file_source.raised # None THEN file_source
     ELSE [raised |-> None, error_key |-> None,
           file_sync |->
             [backend |-> backend,
              file_source |-> file_source.file_sync,
              dest_path |-> file_sync_config.dest_file_path,
              overwrite |-> IF Has(file_sync_config, "overwrite")
                              THEN file_sync_config.overwrite ELSE FALSE,
              key |-> file_sync_config.key,
              dependency_keys |-> IF Has(file_sync_config, "dependency")
                                    THEN file_sync_config.dependency ELSE <<>>]]

\* map_location_type: the backend of a location type
map_location_type(location_type) ==
  IF location_type \in LOCATION_TYPES
    THEN [raised |-> None, error_key |-> None, backend |-> location_type]
    ELSE [raised |-> log_and_raise(Str("Invalid location_type."),
                                   Class("NotImplementedError"),
                                   NP_INVALID_LOCATION_TYPE).raised,
          error_key |-> NP_INVALID_LOCATION_TYPE, backend |-> None]

\* a bug that tests the required fields before the execution context
parse_file_sync_fields_first(file_sync_config, context) ==
  IF ~Has(file_sync_config, "location_type")
     \/ file_sync_config.location_type \notin LOCATION_TYPES
    THEN [raised |-> "ValueError", error_key |-> NP_MISSING_LOCATION_TYPE,
          file_sync |-> None]
  ELSE IF \E node \in REQUIRED_FS_NODES(file_sync_config.location_type) :
            ~Has(file_sync_config, node)
    THEN [raised |-> "ValueError", error_key |-> NP_MISSING_FILE_SYNC_CONFIG,
          file_sync |-> None]
  ELSE IF context = None /\ file_sync_config.location_type = LOCATION_TYPE_GITHUB
    THEN [raised |-> "ValueError", error_key |-> NP_MISSING_EXEC_CONTEXT,
          file_sync |-> None]
  ELSE new_file_sync(file_sync_config)

\* node_parsers.parse_file_sync(file_sync_config, exec_context): the exception
\* and its error key, or the FileSync created
parse_file_sync(file_sync_config, context) ==
  IF ~Has(file_sync_config, "location_type")
     \/ file_sync_config.location_type \notin LOCATION_TYPES
    THEN Failed(log_and_raise(Str("File sync config missing location type"),
                              Class("ValueError"), NP_MISSING_LOCATION_TYPE),
                NP_MISSING_LOCATION_TYPE)
  ELSE IF context = None /\ file_sync_config.location_type = LOCATION_TYPE_GITHUB
    THEN Failed(log_and_raise(Str("Execution context must be passed in"),
                              Class("ValueError"), NP_MISSING_EXEC_CONTEXT),
                NP_MISSING_EXEC_CONTEXT)
  ELSE LET m == map_location_type(file_sync_config.location_type)
       IN IF m.raised # None
            THEN [raised |-> m.raised, error_key |-> m.error_key, file_sync |-> None]
          ELSE IF \E node \in REQUIRED_FS_NODES(m.backend) : ~Has(file_sync_config, node)
            THEN Failed(log_and_raise(Str("File sync config missing some required elements"),
                                      Class("ValueError"), NP_MISSING_FILE_SYNC_CONFIG),
                        NP_MISSING_FILE_SYNC_CONFIG)
          ELSE new_file_sync(file_sync_config)

\* graph_parser.KLASS_MAP and PARSER_MAP
KLASS_MAP ==
  [node \in {"file_syncs", "installation", "environment_condition"} |->
     CASE node = "file_syncs" -> "FileSync"
       [] node = "installation" -> "Installation"
       [] node = "environment_condition" -> "EnvironmentCondition"]
PARSER_MAP == [k \in {"FileSync"} |-> "parse_file_sync"]

\* _get_klass_for_node: KLASS_MAP.get(node, None), and log_and_raise with the
\* exception in the place of the message
get_klass_for_node(node) ==
  IF node \in DOMAIN KLASS_MAP
    THEN [raised |-> None, error_key |-> None, klass |-> KLASS_MAP[node]]
    ELSE LET r == log_and_raise(Class("ValueError"),
                                Str("Couldn't map yaml node to a class."), GP_NO_CLASS_MAP)
         IN [raised |-> r.raised,
             error_key |-> IF r.logged # None THEN GP_NO_CLASS_MAP ELSE None,
             klass |-> None]

\* _get_func_for_klass: PARSER_MAP.get(klass, None), and log_and_raise with the
\* exception in the place of the message
get_func_for_klass(k) ==
  IF k \in DOMAIN PARSER_MAP
    THEN [raised |-> None, error_key |-> None, func |-> PARSER_MAP[k]]
    ELSE LET r == log_and_raise(Class("ValueError"),
                                Str("Couldn't map class to parser function"),
                                GP_NO_PARSER_FUNC_MAP)
         IN [raised |-> r.raised,
             error_key |-> IF r.logged # None THEN GP_NO_PARSER_FUNC_MAP ELSE None,
             func |-> None]

\* the inner loop of _parse_objects: parser_func(obj_config) for every object
\* of a top-level node, without an execution context
RECURSIVE parse_node_objects(_, _)
parse_node_objects(obj_configs, action_list) ==
  IF obj_configs = <<>>
    THEN [raised |-> None, error_key |-> None, where |-> None, action_list |-> action_list]
  ELSE LET instance == parse_file_sync(Head(obj_configs), None)
       IN IF instance.raised # None
            THEN [raised |-> instance.raised, error_key |-> instance.error_key,
                  where |-> "parse_file_sync", action_list |-> action_list]
          ELSE parse_node_objects(Tail(obj_configs),
                                  Append(action_list, instance.file_sync))

\* _parse_objects(config): the loop over config.keys(); config is the sequence
\* of its top-level nodes, each with its list of objects
RECURSIVE parse_objects(_, _)
parse_objects(config, action_list) ==
  IF config = <<>>
    THEN [raised |-> None, error_key |-> None, where |-> None, action_list |-> action_list]
  ELSE LET k == get_klass_for_node(Head(config).node)
           f == get_func_for_klass(k.klass)
       IN IF k.raised # None
            THEN [raised |-> k.raised, error_key |-> k.error_key,
                  where |-> "_get_klass_for_node", action_list |-> action_list]
          ELSE IF f.raised # None
            THEN [raised |-> f.raised, error_key |-> f.error_key,
                  where |-> "_get_func_for_klass", action_list |-> action_list]
          ELSE LET objs == parse_node_objects(Head(config).objects, action_list)
               IN IF objs.raised # None THEN objs
                  ELSE parse_objects(Tail(config), objs.action_list)

\* the keys a file sync configuration can have (const.py)
FileSyncNodes == {"location_type", "source_file_path", "dest_file_path", "key",
                  "repository", "overwrite", "dependency"}

\* the file sync configurations: every key given or not, the location type one
\* of the two or another word, the repository a URL or not
FileSyncConfigs ==
  [given : SUBSET FileSyncNodes,
   location_type : {LOCATION_TYPE_LOCAL, LOCATION_TYPE_GITHUB, "server"},
   source_file_path : {"source"},
   dest_file_path : {"dest"},
   key : {"key"},
   repository : {GoodUrl, BadUrl},
   overwrite : BOOLEAN,
   dependency : {<<>>, <<"other_key">>}]

\* the exec_context argument: None, or an ExecutionContext
ExecutionContexts == {None, "ExecutionContext"}

\* a complete local file sync, and a file sync without a location type
LocalFileSyncConfig ==
  [given |-> {"location_type", "source_file_path", "dest_file_path", "key"},
   location_type |-> LOCATION_TYPE_LOCAL, source_file_path |-> "source",
   dest_file_path |-> "dest", key |-> "key", repository |-> BadUrl,
   overwrite |-> TRUE, dependency |-> <<>>]
NodeNames == {"file_syncs", "installation", "environment_condition", "packages"}
ObjectLists ==
  {<<>>, <<LocalFileSyncConfig>>,
   <<[LocalFileSyncConfig EXCEPT !.given = @ \ {"location_type"}]>>}

\* the configurations of _parse_objects: up to MaxCalls top-level nodes with
\* different names
ParseConfigs ==
  {c \in UNION {[1..n -> [node : NodeNames, objects : ObjectLists]] : n \in 0..MaxCalls} :
     \A i \in 1..Len(c) : \A j \in 1..Len(c) : c[i].node = c[j].node => i = j}

InitParse ==
  /\ dependency_keys \in SyncConfigs
  /\ klass = [a \in Keys |-> "FileSync"]
  /\ sync = SyncIdle
  /\ installation = InstallationIdle
  /\ InitRun

\* node_parsers.parse_file_sync called directly, as its unit tests call it
ParseFileSync ==
  /\ pc = "start"
  /\ parse_log = <<>>
  /\ \E file_sync_config \in FileSyncConfigs, context \in ExecutionContexts :
       parse_log' = <<[op |-> "parse_file_sync", config |-> file_sync_config,
                       exec_context |-> context,
                       result |-> parse_file_sync(file_sync_config, context)]>>
  /\ UNCHANGED <<dependency_keys, klass, pc, error, graphVars, sortVars, execVars>>
  /\ UNCHANGED <<syncVars, installVars, locationVars, sort_results>>

\* graph_parser._parse_objects called on a configuration
ParseObjects ==
  /\ pc = "start"
  /\ parse_log = <<>>
  /\ \E config \in ParseConfigs :
       parse_log' = <<[op |-> "_parse_objects", config |-> config,
                       exec_context |-> None,
                       result |-> parse_objects(config, <<>>)]>>
  /\ UNCHANGED <<dependency_keys, klass, pc, error, graphVars, sortVars, execVars>>
  /\ UNCHANGED <<syncVars, installVars, locationVars, sort_results>>

NextParse == Next \/ ParseFileSync \/ ParseObjects

SpecParse == InitParse /\ [][NextParse]_vars

\* the dependency relation the configuration declares among the parsed actions
DirectDeps(a) == Range(dependency_keys[a]) \cap Keys

RECURSIVE DepsClosure(_)
DepsClosure(S) ==
  LET T == S \cup UNION {DirectDeps(a) : a \in S}
  IN IF T = S THEN S ELSE DepsClosure(T)

\* the actions a depends on, directly or transitively
TransDeps(a) == DepsClosure(DirectDeps(a))

AllResolved == \A a \in Keys : Resolves(dependency_keys[a])
HasCycle == \E a \in Keys : a \in TransDeps(a)

\* the calls of exec_log that ran the body of the execute of a parsed action
BodyRan(i) ==
  /\ exec_log[i].node \in Keys
  /\ klass[exec_log[i].node] \notin RequiresContext
ReturnedBefore(d, i) ==
  \E j \in 1..(i - 1) : exec_log[j].node = d /\ exec_log[j].outcome = "ok"
TimesExecuted(a) == Cardinality({i \in 1..Len(exec_log) : exec_log[i].node = a})
RunEnded == pc \in {"done", "raised"}
NoActionRaised ==
  \A i \in 1..Len(exec_log) : exec_log[i].node \in Keys => exec_log[i].outcome = "ok"

\* ------------------------------------------------------------ claims
\* C1: for every acyclic configuration (duplicate keys in a list included), once
\* the graph was built and ExecutionGraph.execute has ended without an action
\* failing, execute was called on every parsed action exactly once.
C1_EveryActionExecutedOnce ==
  (AllResolved /\ ~HasCycle /\ RunEnded /\ NoActionRaised)
    => \A a \in Keys : TimesExecuted(a) = 1

\* C2: whenever the execute of an action runs, the execute of every action it
\* depends on, directly or transitively, has run and returned before.
C2_DependenciesExecutedFirst ==
  \A i \in 1..Len(exec_log) :
    BodyRan(i) => \A d \in TransDeps(exec_log[i].node) : ReturnedBefore(d, i)

\* C3: a configuration whose dependency keys contain a cycle never gets past the
\* ordering, and the run fails with CircularDependencyException.
C3_CycleRaisesCircularDependency ==
  (AllResolved /\ HasCycle)
    => /\ pc \notin {"executing", "done"}
       /\ pc = "raised" => error.raised = "CircularDependencyException"

\* C4: in a configuration that contains a cycle the execute of no parsed action
\* ever runs.
C4_CycleExecutesNothing ==
  (AllResolved /\ HasCycle)
    => \A i \in 1..Len(exec_log) : ~BodyRan(i)

\* C5: when a dependency key is the key of no parsed action, graph building fails
\* with KeyError and the message logged names the missing key.
C5_BadReferenceRaisesKeyError ==
  (~AllResolved /\ pc # "start")
    => /\ error.raised = "KeyError"
       /\ error.names \notin Keys
       /\ \E a \in Keys : error.names \in Range(dependency_keys[a])

\* C6: in a run whose configuration has an unresolved dependency key, graph
\* building raises: no ExecutionGraph is returned, the run never reaches the
\* ordering or the execution, and no execute is ever called.
C6_UnresolvedKeyStopsAtBuild ==
  ~AllResolved
    => /\ ~graph_returned
       /\ exec_log = <<>>
       /\ pc \in {"start", "raised"}
       /\ pc = "raised" => error.where = "build"

C6_Witness ==
  /\ ~AllResolved
  /\ pc = "raised"
  /\ error.where = "build"
  /\ \E a \in Keys : Len(dependency_keys[a]) > 0 /\ Resolves(dependency_keys[a])

\* C7: fail-fast: when an execute raises ActionFailureException or
\* UserStoppedExecutionException, it is the last execute call of the run and
\* that exception is what reaches the caller of ExecutionGraph.execute.
C7_FailFast ==
  \A i \in 1..Len(exec_log) :
    exec_log[i].outcome \in {"ActionFailureException", "UserStoppedExecutionException"}
      => /\ i = Len(exec_log)
         /\ pc = "raised"
         /\ error.raised = exec_log[i].outcome
         /\ error.where = "execute"

C7_Witness ==
  /\ pc = "raised"
  /\ exec_log # <<>>
  /\ Last(exec_log).outcome = "UserStoppedExecutionException"
  /\ Len(exec_log) >= 2
  /\ exec_index + 1 < Len(execute_order)

RefusalCase(s) == s.dest_kind = "file" /\ ~s.overwrite

\* overwrite is on, the destination is a file the user is asked about, the
\* user's answer is skip_this_action, and the source is a local file that exists
SkipCase(s) ==
  /\ s.overwrite
  /\ s.dest_kind = "file"
  /\ asks_user(s.source_mtime, s.dest_mtime)
  /\ s.answer = skip_this_action
  /\ s.backend = "local"
  /\ s.source_exists

DestinationKept(e) ==
  /\ ~e.copied
  /\ e.after.dest_kind = e.before.dest_kind
  /\ e.after.dest_content = e.before.dest_content
  /\ e.after.dest_mtime = e.before.dest_mtime

\* C9 as claimed: with overwrite off and the destination an existing file,
\* FileSync.execute raises ActionFailureException whatever the source, and does
\* not copy.
C9_RefusalWhateverTheSource ==
  \A i \in 1..Len(sync_log) :
    RefusalCase(sync_log[i].before)
      => /\ sync_log[i].outcome = "ActionFailureException"
         /\ DestinationKept(sync_log[i])

\* C10: with overwrite on, the destination a file in conflict and the answer
\* skip_this_action, FileSync.execute returns without copying, the destination
\* is as before, and a run that reaches this FileSync goes on with the next
\* action.
C10_SkipKeepsDestinationAndRunGoesOn ==
  /\ \A i \in 1..Len(sync_log) :
       SkipCase(sync_log[i].before)
         => /\ sync_log[i].outcome = "ok"
            /\ DestinationKept(sync_log[i])
  /\ \A i \in 1..Len(exec_log) :
       (exec_log[i].node = SyncKey /\ SkipCase(sync))
         => /\ exec_log[i].outcome = "ok"
            /\ pc # "raised"

\* the call got its source path, the destination is a file, overwrite is on, and
\* the user is asked and gives this answer
Decided(e, answer) ==
  /\ e.resolved
  /\ e.before.overwrite
  /\ e.before.dest_kind = "file"
  /\ e.asked
  /\ e.before.answer = answer

\* C11: when the decision is stop_execution, FileSync.execute raises
\* UserStoppedExecutionException (not ActionFailureException) and copies nothing;
\* in a run, an execute call that raises is the last call made: no later action
\* is executed and the run has ended with that exception.
C11_StopRaisesUserStopped ==
  /\ \A i \in 1..Len(sync_log) :
       Decided(sync_log[i], stop_execution)
         => /\ sync_log[i].outcome = "UserStoppedExecutionException"
            /\ DestinationKept(sync_log[i])
            /\ sync_log[i].after.dest_kind = "file"
  /\ \A i \in 1..Len(exec_log) :
       exec_log[i].outcome # "ok"
         => /\ i = Len(exec_log)
            /\ pc = "raised"
            /\ error.raised = exec_log[i].outcome

C11_Witness ==
  /\ sync_log # <<>>
  /\ Decided(Last(sync_log), stop_execution)
  /\ Last(sync_log).outcome = "UserStoppedExecutionException"
  /\ Last(sync_log).before.source_content # Last(sync_log).before.dest_content

\* the execution context as call i of sync_log left it
ContextAfter(i) ==
  IF i < Len(sync_log) THEN sync_log[i + 1].ctx_before ELSE exec_context

\* C12: the decision ignore_in_future sets the flag on the execution context,
\* and every FileSync.execute made with the flag set, whose destination is a
\* file and whose overwrite is on, copies without asking the user.
C12_FlagSetBypassesPrompt ==
  /\ \A i \in 1..Len(sync_log) :
       Decided(sync_log[i], ignore_in_future)
         => ContextAfter(i).skip_modified_date_warning
  /\ \A i \in 1..Len(sync_log) :
       ( /\ sync_log[i].ctx_before.skip_modified_date_warning
         /\ sync_log[i].resolved
         /\ sync_log[i].before.source_exists
         /\ sync_log[i].before.overwrite
         /\ sync_log[i].before.dest_kind = "file" )
         => /\ ~sync_log[i].asked
            /\ sync_log[i].copied

\* call i of sync_log reached compare_modified_date: the source path was found,
\* the destination is a file and overwrite is on
Compared(e) ==
  /\ e.resolved
  /\ e.before.overwrite
  /\ e.before.dest_kind = "file"

\* C13 as claimed: compare_modified_date asks the user exactly when the source
\* is strictly newer than the local file.
C13_AsksWhenSourceNewer ==
  \A i \in 1..Len(sync_log) :
    Compared(sync_log[i])
      => (sync_log[i].asked
            <=> sync_log[i].before.source_mtime > sync_log[i].before.dest_mtime)

\* C13 as amended: compare_modified_date asks the user exactly when the source
\* is strictly older than the local file (the local file is the newer one);
\* when the source is newer or as old, nobody is asked, None is returned and
\* the call goes on to the copy whatever answer the user would have given.
C13_AsksWhenSourceOlder ==
  \A i \in 1..Len(sync_log) :
    Compared(sync_log[i])
      => /\ sync_log[i].asked
              <=> sync_log[i].before.source_mtime < sync_log[i].before.dest_mtime
         /\ ~sync_log[i].asked
              => sync_log[i].copied = sync_log[i].before.source_exists

C13_Witness ==
  /\ Len(sync_log) = 2
  /\ Compared(sync_log[1])
  /\ sync_log[1].before.source_mtime = sync_log[1].before.dest_mtime
  /\ ~sync_log[1].asked
  /\ Compared(sync_log[2])
  /\ sync_log[2].asked

\* ------------------------------------------------------ Installation
\* the commands of one call, by name
RunsOf(e, command) == {k \in 1..Len(e.runs) : e.runs[k].command = command}
ChecksAllZero(e) == \A k \in RunsOf(e, "check") : e.runs[k].zero
FirstCheckFailed(e) == e.runs # <<>> /\ e.runs[1] = Ran("check", FALSE)

\* C14: as long as the check command exits zero every time it is run, every one
\* of the repeated Installation.execute calls returns and none of them runs the
\* install command.
C14_InstalledNeverInstalls ==
  \A i \in 1..Len(install_log) :
    (\A j \in 1..i : ChecksAllZero(install_log[j]))
      => /\ install_log[i].outcome = "ok"
         /\ RunsOf(install_log[i], "install") = {}
         /\ RunsOf(install_log[i], "check") # {}

C14_Witness ==
  /\ Len(install_log) = MaxCalls
  /\ installation.install_command # None
  /\ \A j \in 1..Len(install_log) : ChecksAllZero(install_log[j])

\* C15: an Installation without an install command whose first check fails
\* raises ActionFailureException.
C15_CheckOnlyNotInstalledFails ==
  \A i \in 1..Len(install_log) :
    (installation.install_command = None /\ FirstCheckFailed(install_log[i]))
      => install_log[i].outcome = "ActionFailureException"

\* C16: an Installation with an install command whose first check fails and
\* whose install command exits non-zero raises ActionFailureException, and the
\* check command is not run a second time.
C16_InstallCommandFailedFails ==
  \A i \in 1..Len(install_log) :
    ( /\ installation.install_command # None
      /\ FirstCheckFailed(install_log[i])
      /\ \E k \in RunsOf(install_log[i], "install") : ~install_log[i].runs[k].zero )
      => /\ install_log[i].outcome = "ActionFailureException"
         /\ Cardinality(RunsOf(install_log[i], "check")) = 1

\* the install command exited zero and the check run after it did not
SoftFailure(e) ==
  e.runs = <<Ran("check", FALSE), Ran("install", TRUE), Ran("check", FALSE)>>

\* C17: when the install command exits zero and the check run after it still
\* fails, Installation.execute returns; in a run the loop goes on with the next
\* node of the order, so this call is never the one that ends the run.
C17_SoftFailureGoesOn ==
  /\ \A i \in 1..Len(install_log) :
       SoftFailure(install_log[i]) => install_log[i].outcome = "ok"
  /\ \A i \in 1..Len(exec_log) :
       SoftFailure(exec_log[i])
         => /\ exec_log[i].outcome = "ok"
            /\ i < Len(execute_order)
            /\ i = Len(exec_log) => (pc = "executing" /\ exec_index = i + 1)
            /\ i < Len(exec_log) => exec_log[i + 1].node = execute_order[i + 1]

\* a run in which an Installation failed softly and the action that depends on
\* it was executed next
C17_Witness ==
  /\ Len(exec_log) >= 2
  /\ SoftFailure(exec_log[1])
  /\ exec_log[1].node \in DirectDeps(exec_log[2].node)
  /\ exec_log[2].outcome = "ok"

\* C18: every execute call ExecutionGraph.execute makes, the one on the root
\* NullAction included, gets the execution context its signature requires: no
\* call on a class that requires it fails for the lack of it.
C18_EveryExecuteGetsContext ==
  \A i \in 1..Len(exec_log) :
    klass_of(exec_log[i].node, klass) \in RequiresContext
      => exec_log[i].outcome # "TypeError"

\* the actions no other action declares as a dependency
NotDependedUponByAnother ==
  {a \in Keys : \A b \in Keys \ {a} : a \notin DirectDeps(b)}

\* C19: once the graph is built, the children of the root are the actions that
\* no other action declares as a dependency, each of them once; an action that
\* only depends on itself is one of them.
C19_RootChildrenAreTopLevel ==
  graph_returned
    => /\ Range(children[Root]) = NotDependedUponByAnother
       /\ \A a \in Keys : Count(a, children[Root]) <= 1

\* the source is a GitHub repository that was fetched, now or by an earlier
\* call, and the file is not in it
AbsentAfterFetch(e) ==
  /\ e.before.backend = "github"
  /\ ~e.before.source_exists
  /\ e.before.path_cached \/ e.clone_ok

\* C20: every get_file_path call on a GitHub location made while the file is
\* absent from the fetched repository raises ValueError, a call made after an
\* earlier call failed that way included.
C20_AbsentFileAlwaysRaises ==
  \A i \in 1..Len(sync_log) :
    AbsentAfterFetch(sync_log[i])
      => /\ ~sync_log[i].resolved
         /\ sync_log[i].outcome = "ValueError"

\* ------------------------------------------------------ FileLocation
\* call i of location_log is made on a GitHub location
OnGithub(i) == location_log[i].before.backend = "github"
\* call i of location_log ran clone_from, and clone_from failed / returned
CloneFailed(i) == location_log[i].clone_attempted /\ ~location_log[i].clone_ok
CloneReturned(i) == location_log[i].clone_attempted /\ location_log[i].clone_ok

\* C21: when the clone of a GitHub location fails, the call raises the
\* GitCommandError, the cached path stays unset, and the next get_file_path or
\* get_modified_date call on the location attempts the clone again.
C21_FailedCloneIsRetried ==
  \A i \in 1..Len(location_log) :
    (OnGithub(i) /\ ~location_log[i].before.path_cached /\ ~location_log[i].clone_ok)
      => /\ location_log[i].raised = "GitCommandError"
         /\ ~location_log[i].path_cached
         /\ i < Len(location_log) => location_log[i + 1].clone_attempted
         /\ i = Len(location_log) => ~sync.path_cached

C21_Witness ==
  /\ Len(location_log) >= 2
  /\ OnGithub(1)
  /\ location_log[1].op = "get_file_path"
  /\ CloneFailed(1)
  /\ location_log[2].op = "get_modified_date"
  /\ CloneReturned(2)
  /\ location_log[2].raised = None

\* C22: a GitHub location is not cloned when it is constructed, its first
\* get_file_path or get_modified_date call attempts the clone, and once a clone
\* has returned no later call on the location clones again.
C22_ClonesLazilyAndOnce ==
  /\ location_log = <<>> => ~sync.path_cached
  /\ (location_log # <<>> /\ OnGithub(1)) => location_log[1].clone_attempted
  /\ \A i \in 1..Len(location_log) : \A j \in (i + 1)..Len(location_log) :
       (OnGithub(i) /\ CloneReturned(i)) => ~location_log[j].clone_attempted

C22_Witness ==
  /\ Len(location_log) = MaxCalls + 1
  /\ OnGithub(1)
  /\ CloneReturned(1)
  /\ location_log[1].raised = None
  /\ \E j \in 2..Len(location_log) : location_log[j].op = "get_file_path"
  /\ \E j \in 2..Len(location_log) : location_log[j].op = "get_modified_date"

\* ------------------------------------------------------ the ordering
\* the nodes a walk along child edges reaches from the root
RECURSIVE ReachableFrom(_)
ReachableFrom(S) ==
  LET T == S \cup UNION {Range(children[n]) : n \in S}
  IN IF T = S THEN S ELSE ReachableFrom(T)
Reachable == ReachableFrom({Root})

HasDuplicateKey == \E a \in Keys : \E k \in Keys : Count(k, dependency_keys[a]) > 1
SortOver == pc \notin {"start", "built", "sorting"}

\* C23: a list get_topological_sort returns holds every node reachable from
\* the root exactly once, and no other node.
C23_ReturnedOrderIsReachableNodesOnce ==
  \A i \in 1..Len(sort_results) :
    sort_results[i].raised = None
      => \A n \in Nodes :
           Count(n, sort_results[i].returned) = IF n \in Reachable THEN 1 ELSE 0

\* C24: on every graph built from parsed actions the ordering pass appends no
\* node twice, the order never gets longer than the node count, and the
\* impossible-state branch is never taken.
C24_NoNodeAppendedTwice ==
  pc \notin {"start", "built"}
    => /\ \A n \in Nodes : Count(n, sorted_list) <= 1
       /\ Len(sorted_list) <= known_node_count
       /\ sort_verdict(Len(sorted_list), known_node_count) # "impossible"

\* C25: in every graph that was built, every action's node is reachable from
\* the root, and _get_num_nodes counts the actions plus the root.
C25_EveryNodeReachable ==
  graph_returned
    => /\ Reachable = Nodes
       /\ pc # "built" => known_node_count = NumActions + 1

\* C26: the loops of _get_num_nodes and get_topological_sort end on every
\* graph, cycles, self-loops and duplicate edges included: a call that has
\* started reaches the length check with an empty worklist.
C26_SortTerminates ==
  (pc \in {"built", "sorting"}) ~> (SortOver /\ active_list = <<>>)

\* the sort has ended on a graph that has a cycle through two actions one of
\* which the root reaches, a duplicate edge, and more than the root in the order
C26_Witness ==
  /\ SortOver
  /\ sort_results # <<>>
  /\ HasDuplicateKey
  /\ \E a \in Keys : \E b \in Keys \ {a} :
       a \in DirectDeps(b) /\ b \in DirectDeps(a) /\ a \in Reachable
  /\ Len(sorted_list) > 1

\* C27: every get_topological_sort call on one graph gives its caller what the
\* first call gave: the marks of earlier traversals are not read as visited.
C27_SortIsReentrant ==
  \A i \in 1..Len(sort_results) : sort_results[i] = sort_results[1]

C27_Witness ==
  /\ Len(sort_results) = MaxCalls
  /\ Last(sort_results).raised = None
  /\ Len(Last(sort_results).returned) = NumActions + 1
  /\ \E n \in Nodes : Cardinality(visited[n]) = 2 * MaxCalls

\* C28: once the graph is built, the children of every action's node are the
\* nodes of its dependency keys in the declared order, m occurs among the
\* children of n as often as n occurs among the parents of m, and the root has
\* no parents.
C28_EdgesFollowDependencyKeys ==
  graph_returned
    => /\ \A a \in Keys : children[a] = dependency_keys[a]
       /\ \A n \in Nodes : \A m \in Nodes :
            Count(m, children[n]) = Count(n, parents[m])
       /\ parents[Root] = <<>>

C28_Witness ==
  /\ graph_returned
  /\ HasDuplicateKey
  /\ \E a \in Keys : a \in DirectDeps(a)
  /\ children[Root] # <<>>

\* ------------------------------------------------------ failures, frame
Surfacing == {"ok", "ActionFailureException", "UserStoppedExecutionException"}

\* C29: whatever goes wrong in an execute call reaches the caller as
\* ActionFailureException, or as UserStoppedExecutionException for the stop
\* decision: a missing source path and a failed copy included.
C29_FailuresSurfaceAsActionFailure ==
  /\ \A i \in 1..Len(sync_log) : sync_log[i].outcome \in Surfacing
  /\ \A i \in 1..Len(exec_log) : exec_log[i].outcome \in Surfacing
  /\ (pc = "raised" /\ error.where = "execute") => error.raised \in Surfacing

\* a step that makes an execute call: from ExecutionGraph.execute, or directly
ExecuteCalled == exec_log' # exec_log \/ sync_log' # sync_log

\* C30: an execute call leaves the nodes and edges of the graph as they are,
\* and leaves the execution context as it is unless it is a FileSync.execute
\* whose decision is ignore_in_future, which sets the flag and nothing else.
C30_ExecuteChangesOnlyTheFlag ==
  [][ExecuteCalled
       => /\ UNCHANGED <<dependency_keys, dependencies, children, parents, visited>>
          /\ exec_context' # exec_context
               => /\ sync_log' # sync_log
                  /\ Decided(Last(sync_log'), ignore_in_future)
                  /\ exec_context' = [exec_context EXCEPT
                                        !.skip_modified_date_warning = TRUE]]_vars

\* a proceed_once that copied and left the context alone, then an
\* ignore_in_future that set the flag
C30_Witness ==
  /\ Len(sync_log) = 2
  /\ Decided(sync_log[1], proceed_once)
  /\ sync_log[1].copied
  /\ ~sync_log[2].ctx_before.skip_modified_date_warning
  /\ Decided(sync_log[2], ignore_in_future)
  /\ exec_context.skip_modified_date_warning

\* ---------------------------------------------------------- C31 .. C38
\* a file is already there where shutil.copy would write: dest_path itself, or
\* the entry with the source's filename of the directory dest_path
FileAlreadyThere(s) == s.dest_kind \in {"file", "dir"} /\ s.dest_content # None

\* C31 as claimed: with overwrite off, FileSync.execute never replaces the
\* content of a file that already exists, also when dest_path is a directory
\* that already holds a file with the source's filename.
C31_OverwriteOffNeverReplaces ==
  \A i \in 1..Len(sync_log) :
    (~sync_log[i].before.overwrite /\ FileAlreadyThere(sync_log[i].before))
      => /\ ~sync_log[i].copied
         /\ sync_log[i].after.dest_content = sync_log[i].before.dest_content

\* C32: the user is asked only by a FileSync.execute call that finds dest_path
\* a file while overwrite is on; a call that finds no destination never asks
\* and never compares dates, whatever overwrite is: it goes from get_file_path
\* to shutil.copy, so it copies whenever the source file is there to copy, and
\* otherwise fails in get_file_path or in the copy itself, never with a refusal.
C32_PromptOnlyForExistingFileWithOverwrite ==
  \A i \in 1..Len(sync_log) :
    LET e == sync_log[i]
    IN /\ e.asked => (e.before.dest_kind = "file" /\ e.before.overwrite)
       /\ e.before.dest_kind = "absent"
            => /\ ~e.asked
               /\ e.copied = (e.resolved /\ e.before.source_exists)
               /\ e.copied => (e.outcome = "ok"
                                /\ e.after.dest_content = e.before.source_content)
               /\ e.outcome \notin {"ActionFailureException",
                                     "UserStoppedExecutionException"}

\* a first call finds no destination and copies without asking, with overwrite
\* on; the next call finds the file it wrote and asks
C32_Witness ==
  /\ Len(sync_log) = 2
  /\ sync_log[1].before.dest_kind = "absent"
  /\ sync_log[1].before.overwrite
  /\ sync_log[1].copied
  /\ ~sync_log[1].asked
  /\ sync_log[2].asked

\* an execute call of the run has failed
ActionFailed == exec_log # <<>> /\ Last(exec_log).outcome # "ok"

\* C33: no rollback and no retry: the record of the execute calls made in a run
\* and of the commands they ran only grows, so what the first k-1 actions did
\* stays done, and once the k-th call has failed no execute call is made in
\* that run any more: none of the k-1 is executed again or compensated.
C33_NoRollback ==
  [][ /\ \A i \in 1..Len(exec_log) :
           i <= Len(exec_log') /\ exec_log'[i] = exec_log[i]
      /\ ActionFailed => (exec_log' = exec_log /\ pc = "raised" /\ pc' = pc) ]_vars

\* the third call of a run failed after two Installations ran their commands
C33_Witness ==
  /\ ActionFailed
  /\ Len(exec_log) = 3
  /\ exec_log[1].runs # <<>>
  /\ exec_log[2].runs # <<>>
  /\ exec_log[1].node # exec_log[2].node
  /\ pc = "raised"

\* the commands one Installation.execute call ran are in the order the claim
\* gives: a check first, the install command at most once and right after a
\* check that exited non-zero, one or two checks, and a single check when the
\* first one exited zero
RunsInOrder(e) ==
  /\ Cardinality(RunsOf(e, "install")) <= 1
  /\ \A k \in RunsOf(e, "install") : k > 1 /\ e.runs[k - 1] = Ran("check", FALSE)
  /\ Cardinality(RunsOf(e, "check")) \in {1, 2}
  /\ e.runs[1].command = "check"
  /\ e.runs[1].zero => Len(e.runs) = 1

\* C34: within one Installation.execute call, called directly or by a run, the
\* install command is invoked at most once and only after a check that reported
\* not-installed; the check command is invoked once or twice, and exactly once
\* when the first check reports installed.
C34_CommandsOfOneExecute ==
  /\ \A i \in 1..Len(install_log) : RunsInOrder(install_log[i])
  /\ \A i \in 1..Len(exec_log) :
       (exec_log[i].node \in Keys /\ klass[exec_log[i].node] = "Installation")
         => RunsInOrder(exec_log[i])

\* one call found the software installed, another one checked, installed and
\* checked again
C34_Witness ==
  /\ Len(install_log) = 2
  /\ install_log[1].runs = <<Ran("check", TRUE)>>
  /\ Len(install_log[2].runs) = 3
  /\ RunsOf(install_log[2], "install") # {}

\* C35: the root is the first element, and only the first, of every list
\* get_topological_sort returns, so the execute call on the root NullAction is
\* the last call ExecutionGraph.execute makes: every action of the order was
\* called before it, each returned, and no call follows it.
C35_RootFirstInOrderLastExecuted ==
  /\ \A i \in 1..Len(sort_results) :
       sort_results[i].raised = None
         => /\ sort_results[i].returned[1] = Root
            /\ Count(Root, sort_results[i].returned) = 1
  /\ \A i \in 1..Len(exec_log) :
       exec_log[i].node = Root
         => /\ i = Len(exec_log)
            /\ i = Len(execute_order)
            /\ \A j \in 1..(i - 1) :
                 exec_log[j].node \in Keys /\ exec_log[j].outcome = "ok"
            /\ \A a \in Keys \cap Range(execute_order) : ReturnedBefore(a, i)

\* every parsed action was executed, then the root
C35_Witness ==
  /\ Len(exec_log) = NumActions + 1
  /\ Last(exec_log).node = Root
  /\ \A a \in Keys : ReturnedBefore(a, Len(exec_log))

\* the identifiers a traversal can draw, and nodes that carry no mark
TraversalKeys == 1..(2 * MaxCalls)
NoMarks == [n \in Nodes |-> {}]

\* C36: what get_topological_sort gives its caller is a function of the graph
\* alone: every call made on a graph, the marks of earlier traversals on its
\* nodes or not, gives what a call on the same graph with unmarked nodes gives
\* under any two distinct identifiers, so two runs give the same sequence.
C36_SortIsDeterministic ==
  \A i \in 1..Len(sort_results) :
    \A count_key \in TraversalKeys : \A key \in TraversalKeys \ {count_key} :
      sort_results[i] = get_topological_sort(children, parents, NoMarks, count_key, key)

\* two calls were made on a graph in which the order of the children decides
\* the result: two top-level actions share a dependency
C36_Witness ==
  /\ Len(sort_results) = MaxCalls
  /\ Last(sort_results).raised = None
  /\ Len(children[Root]) >= 2
  /\ \E a \in Keys : \E b \in Keys \ {a} : \E c \in Keys \ {a, b} :
       c \in DirectDeps(a) /\ c \in DirectDeps(b)

\* the direct calls of parse_file_sync
ParseFileSyncCalled(e) == e.op = "parse_file_sync"
RaisedWith(r, exception, error_key) ==
  r.raised = exception /\ r.error_key = error_key /\ r.file_sync = None
NoLocationType(c) == ~Has(c, "location_type") \/ c.location_type \notin LOCATION_TYPES
GithubWithoutContext(e) ==
  e.exec_context = None /\ e.config.location_type = LOCATION_TYPE_GITHUB
MissingRequired(c) == \E node \in REQUIRED_FS_NODES(c.location_type) : ~Has(c, node)
BadRepository(c) ==
  c.location_type = LOCATION_TYPE_GITHUB /\ ~validators_url(c.repository)
ReturnsWithDefaults(e) ==
  /\ e.result.raised = None
  /\ e.result.file_sync.backend = e.config.location_type
  /\ e.result.file_sync.overwrite =
       (IF Has(e.config, "overwrite") THEN e.config.overwrite ELSE FALSE)
  /\ e.result.file_sync.dependency_keys =
       (IF Has(e.config, "dependency") THEN e.config.dependency ELSE <<>>)

AcceptedNodeNames == DOMAIN KLASS_MAP
NodesOf(config) == {config[i].node : i \in 1..Len(config)}

\* C38 as claimed: every top-level node name that _get_klass_for_node accepts
\* has a parser function, so _parse_objects never fails in _get_func_for_klass;
\* it rejects a configuration at its node names only for an unknown name, and
\* then with ValueError under the no-class-map key.
C38_AcceptedNodesHaveParsers ==
  \A i \in 1..Len(parse_log) :
    LET e == parse_log[i]
    IN e.op = "_parse_objects"
         => /\ e.result.where # "_get_func_for_klass"
            /\ NodesOf(e.config) \subseteq AcceptedNodeNames
                 => e.result.where \in {None, "parse_file_sync"}
            /\ e.result.where = "_get_klass_for_node"
                 => /\ ~(NodesOf(e.config) \subseteq AcceptedNodeNames)
                    /\ e.result.raised = "ValueError"
                    /\ e.result.error_key = GP_NO_CLASS_MAP
====
